---------------------------- MODULE Spec2Model ----------------------------
(***************************************************************************)
(* A model of the Facebook page/event fetcher service:                     *)
(*   app/services/facebook_service.py  (FacebookService)                   *)
(*   app/schemas.py                    (the pages and events tables)       *)
(*   app/main.py                       (the HTTP handlers)                 *)
(*   app/services/queue_service.py     (QueueService and its Redis keys)   *)
(*                                                                         *)
(* Values.  A nullable value is a set with at most one element: NULL is    *)
(* the empty set (Python None, SQL NULL, JSON null) and Some(v) is {v}.    *)
(* A JSON object is a record whose DOMAIN is the set of keys that are      *)
(* present, so "key in d" is  k \in DOMAIN d.  A string whose characters   *)
(* matter (a timestamp) is a sequence of one-character strings.            *)
(***************************************************************************)
EXTENDS Integers, Sequences, FiniteSets, TLC

NULL == {}
Some(v) == {v}
The(o) == CHOOSE v \in o : TRUE

\* Python's dict.get(key, default).
Get(d, k, default) == IF k \in DOMAIN d THEN d[k] ELSE default

\* Python truthiness of an optional string: None and "" are both falsy.
\* TruthyStr is for a string kept whole, TruthySeq for a sequence of characters.
TruthyStr(o) == o # NULL /\ o # Some("")
TruthySeq(o) == o # NULL /\ o # Some(<<>>)

(***************************************************************************)
(* Timestamps: datetime.fromisoformat and the rewriting done before it.    *)
(***************************************************************************)
Digits == {"0", "1", "2", "3", "4", "5", "6", "7", "8", "9"}

DigitVal(c) ==
  CASE c = "0" -> 0 [] c = "1" -> 1 [] c = "2" -> 2 [] c = "3" -> 3
    [] c = "4" -> 4 [] c = "5" -> 5 [] c = "6" -> 6 [] c = "7" -> 7
    [] c = "8" -> 8 [] c = "9" -> 9

\* The number written by the digits s[i..j].
Num2(s, i) == 10 * DigitVal(s[i]) + DigitVal(s[i + 1])
Num4(s, i) == 100 * Num2(s, i) + Num2(s, i + 2)

IsLeap(y) == (y % 4 = 0 /\ y % 100 # 0) \/ y % 400 = 0

DaysIn(y, m) ==
  IF m = 2 THEN (IF IsLeap(y) THEN 29 ELSE 28)
  ELSE IF m \in {4, 6, 9, 11} THEN 30 ELSE 31

\* s[-n:] and s[:-n] of Python, for a sequence s.
Last(s, n) == IF Len(s) <= n THEN s ELSE SubSeq(s, Len(s) - n + 1, Len(s))
DropLast(s, n) == IF Len(s) <= n THEN <<>> ELSE SubSeq(s, 1, Len(s) - n)
Contains(s, c) == \E i \in 1..Len(s) : s[i] = c

\* YYYY-MM-DD?HH:MM:SS in s[1..19], with every component in range.
LocalOk(s) ==
  /\ Len(s) >= 19
  /\ \A i \in {1, 2, 3, 4, 6, 7, 9, 10, 12, 13, 15, 16, 18, 19} : s[i] \in Digits
  /\ s[5] = "-" /\ s[8] = "-" /\ s[14] = ":" /\ s[17] = ":"
  /\ Num4(s, 1) >= 1
  /\ Num2(s, 6) \in 1..12
  /\ Num2(s, 9) >= 1 /\ Num2(s, 9) <= DaysIn(Num4(s, 1), Num2(s, 6))
  /\ Num2(s, 12) <= 23 /\ Num2(s, 15) <= 59 /\ Num2(s, 18) <= 59

\* A UTC offset as isoformat() writes it: sign HH : MM.
OffsetOk(t) ==
  /\ Len(t) = 6
  /\ t[1] \in {"+", "-"}
  /\ t[2] \in Digits /\ t[3] \in Digits /\ t[4] = ":"
  /\ t[5] \in Digits /\ t[6] \in Digits
  /\ Num2(t, 2) <= 23 /\ Num2(t, 5) <= 59

OffsetMinutes(t) ==
  (IF t[1] = "-" THEN -1 ELSE 1) * (60 * Num2(t, 2) + Num2(t, 5))

\* datetime.fromisoformat(s), for the strings datetime.isoformat() writes:
\* NULL stands for ValueError, otherwise the instant read.  tz is NULL for
\* a string without an offset (a naive datetime).
FromIsoFormat(s) ==
  IF LocalOk(s) /\ (Len(s) = 19 \/ OffsetOk(SubSeq(s, 20, Len(s))))
  THEN Some([date |-> SubSeq(s, 1, 10), time |-> SubSeq(s, 12, 19),
             tz |-> IF Len(s) = 19 THEN NULL
                    ELSE Some(OffsetMinutes(SubSeq(s, 20, Len(s))))])
  ELSE NULL

\* str.replace("Z", "+00:00"): every Z of the string, not only the last.
RECURSIVE ReplaceZ(_)
ReplaceZ(s) ==
  IF s = <<>> THEN <<>>
  ELSE (IF Head(s) = "Z" THEN <<"+", "0", "0", ":", "0", "0">> ELSE <<Head(s)>>)
       \o ReplaceZ(Tail(s))

\* The rewriting of a timestamp string before it is parsed.
FormatTimeStr(s) ==
  IF s # <<>> /\ s[Len(s)] = "Z" THEN ReplaceZ(s)
  ELSE IF Contains(s, "+") /\ ~Contains(Last(s, 5), ":")
       THEN DropLast(s, 5) \o SubSeq(Last(s, 5), 1, IF Len(Last(s, 5)) < 3 THEN Len(Last(s, 5)) ELSE 3)
            \o <<":">>
            \o (IF Len(Last(s, 5)) <= 3 THEN <<>> ELSE SubSeq(Last(s, 5), 4, Len(Last(s, 5))))
       ELSE s

\* The parse of one timestamp string: NULL when fromisoformat raises.
ParseTimeStr(s) == FromIsoFormat(FormatTimeStr(s))

(***************************************************************************)
(* The per-record derivation of fetch_events (the body of its for loop up  *)
(* to the store lookup).                                                   *)
(***************************************************************************)
UnnamedEvent == "Unnamed Event"

\* start_time and end_time are parsed inside ONE try block: a ValueError of
\* the first parse leaves the block, so the second parse never runs.
StartFails(ev) ==
  LET s == Get(ev, "start_time", NULL)
  IN  TruthySeq(s) /\ ParseTimeStr(The(s)) = NULL

ParsedStart(ev) ==
  LET s == Get(ev, "start_time", NULL)
  IN  IF TruthySeq(s) THEN ParseTimeStr(The(s)) ELSE NULL

ParsedEnd(ev) ==
  LET s == Get(ev, "end_time", NULL)
  IN  IF StartFails(ev) THEN NULL
      ELSE IF TruthySeq(s) THEN ParseTimeStr(The(s)) ELSE NULL

\* "place" in event and "name" in event["place"]: a null place is not a
\* container, so the membership test raises TypeError.
PlaceRaises(ev) == "place" \in DOMAIN ev /\ ev.place = NULL

Location(ev) ==
  IF "place" \in DOMAIN ev /\ ev.place # NULL /\ "name" \in DOMAIN The(ev.place)
  THEN The(ev.place).name
  ELSE NULL

\* f"https://facebook.com/events/{fb_event_id}"
EventUrl(fbid) == Some(<<"https://facebook.com/events/", fbid>>)

\* The fields derived from one raw record.
Derive(ev) ==
  [fb_event_id      |-> Get(ev, "id", NULL),
   name             |-> Get(ev, "name", Some(UnnamedEvent)),
   description      |-> Get(ev, "description", NULL),
   event_url        |-> EventUrl(Get(ev, "id", NULL)),
   location         |-> Location(ev),
   start_time       |-> ParsedStart(ev),
   end_time         |-> ParsedEnd(ev),
   is_online        |-> Get(ev, "is_online", Some(FALSE)),
   attending_count  |-> Get(ev, "attending_count", Some(0)),
   interested_count |-> Get(ev, "interested_count", Some(0))]

(***************************************************************************)
(* The tables (app/schemas.py) and what the store enforces on them.        *)
(***************************************************************************)
\* events.fb_event_id is unique: a second row with the same non-null value
\* is refused (IntegrityError at commit).  NULLs do not collide.
UniqueEventViolation(evs, fbid) ==
  fbid # NULL /\ \E r \in evs : r.fb_event_id = fbid

\* A store that does not check the reference.
ForeignKeyUnchecked(pgs, pageId) == FALSE

\* events.fb_page_id references pages.id.
ForeignKeyViolation(pgs, pageId) ==
  \A p \in pgs : p.id # pageId

\* pages.fb_page_id is unique.
UniquePageViolation(pgs, fbid) ==
  \E p \in pgs : p.fb_page_id = fbid

\* A lookup that never finds the stored event.
QueryEventByFbIdNone(evs, fbid) == {}

\* db.query(EventModel).filter(EventModel.fb_event_id == x): the matching rows
\* (x == None is rendered IS NULL).  .first() takes one of them.
QueryEventByFbId(evs, fbid) == {r \in evs : r.fb_event_id = fbid}

\* A lookup that never finds the stored page.
QueryPageByFbIdNone(pgs, fbid) == {}

\* db.query(PageModel).filter(PageModel.fb_page_id == x)
QueryPageByFbId(pgs, fbid) == {p \in pgs : p.fb_page_id = fbid}

\* db.query(PageModel).filter(PageModel.id == page_id)
QueryPageById(pgs, pageId) == {p \in pgs : p.id = pageId}

\* The row EventModel(...) + db.add + commit writes.  A None given for a column
\* that has a default is left out of the INSERT, so the default is stored.
NewEventRow(id, pageId, d) ==
  [id               |-> id,
   fb_event_id      |-> d.fb_event_id,
   fb_page_id       |-> pageId,
   name             |-> d.name,
   description      |-> d.description,
   event_url        |-> d.event_url,
   location         |-> d.location,
   start_time       |-> d.start_time,
   end_time         |-> d.end_time,
   is_online        |-> IF d.is_online = NULL THEN Some(FALSE) ELSE d.is_online,
   attending_count  |-> IF d.attending_count = NULL THEN Some(0) ELSE d.attending_count,
   interested_count |-> IF d.interested_count = NULL THEN Some(0) ELSE d.interested_count]

\* An update that merges: a field the new record leaves null keeps its value.
UpdateEventRowMerge(row, d) ==
  [row EXCEPT !.name = d.name,
              !.description = IF d.description = NULL THEN @ ELSE d.description,
              !.event_url = d.event_url,
              !.location = IF d.location = NULL THEN @ ELSE d.location,
              !.start_time = IF d.start_time = NULL THEN @ ELSE d.start_time,
              !.end_time = IF d.end_time = NULL THEN @ ELSE d.end_time,
              !.is_online = d.is_online,
              !.attending_count = d.attending_count,
              !.interested_count = d.interested_count]

\* The nine assignments of the update branch.
UpdateEventRow(row, d) ==
  [row EXCEPT !.name = d.name,
              !.description = d.description,
              !.event_url = d.event_url,
              !.location = d.location,
              !.start_time = d.start_time,
              !.end_time = d.end_time,
              !.is_online = d.is_online,
              !.attending_count = d.attending_count,
              !.interested_count = d.interested_count]

\* EventResponse.from_orm(row) raises ValidationError when a required field
\* (str or int, not Optional) is None.
EventResponseRaises(row) ==
  \/ row.fb_event_id = NULL
  \/ row.name = NULL
  \/ row.attending_count = NULL
  \/ row.interested_count = NULL

\* Page.from_orm(row): name is a required str.
PageResponseRaises(row) == row.name = NULL

\* get_events(db, page_id): the rows of one page, or every row when page_id is
\* falsy (None or 0).
GetEvents(evs, pageId) ==
  IF pageId = NULL \/ pageId = Some(0) THEN evs
  ELSE {r \in evs : r.fb_page_id = The(pageId)}

\* get_event(db, event_id)
GetEvent(evs, eventId) == {r \in evs : r.id = eventId}

(***************************************************************************)
(* add_page: the enrichment of the candidate from the page-info response   *)
(* and the row that is inserted.                                           *)
(***************************************************************************)
\* An enrichment that takes whatever the source supplies.
EnrichPageOverwrite(cand, info) ==
  [cand EXCEPT
     !.name = IF "name" \in DOMAIN info THEN info.name ELSE @,
     !.description = IF "description" \in DOMAIN info THEN info.description ELSE @,
     !.page_url = IF "link" \in DOMAIN info THEN info.link ELSE @]

\* if not page.X and "X" in page_info: page.X = page_info["X"]
EnrichPage(cand, info) ==
  [cand EXCEPT
     !.name = IF ~TruthyStr(cand.name) /\ "name" \in DOMAIN info
              THEN info.name ELSE @,
     !.description = IF ~TruthyStr(cand.description) /\ "description" \in DOMAIN info
                     THEN info.description ELSE @,
     !.page_url = IF ~TruthyStr(cand.page_url) /\ "link" \in DOMAIN info
                  THEN info.link ELSE @]

\* PageModel(fb_page_id=..., name=..., description=...,
\*           page_url=str(page.page_url) if page.page_url else None, is_active=True)
NewPageRow(id, cand) ==
  [id          |-> id,
   fb_page_id  |-> cand.fb_page_id,
   name        |-> cand.name,
   description |-> cand.description,
   page_url    |-> IF TruthyStr(cand.page_url) THEN cand.page_url ELSE NULL,
   is_active   |-> TRUE]

\* Handlers that catch nothing.
PageInfoErrorUncaught(kind) == FALSE
FetchErrorUncaught(kind) == FALSE

\* except httpx.HTTPError in add_page: a transport error and a non-success
\* status (raise_for_status) are HTTPErrors; the JSONDecodeError of
\* response.json() is a ValueError and is not.
PageInfoErrorCaught(kind) == kind = "http_error"

\* except httpx.HTTPError in fetch_events: the same distinction.
FetchErrorCaught(kind) == kind = "http_error"

(***************************************************************************)
(* Bounds and the inputs the next-state relations draw from.               *)
(***************************************************************************)
\* The store stops assigning ids after these many inserts.
MaxPageId == 2
MaxEventId == 2
\* The longest data array of a source response.
MaxData == 2
\* The events_to_analyze list takes no more than these many entries.
MaxQueue == 3

Workers == {1, 2}

PageFbIds == {"page123", "page456"}

T1800 == <<"2","0","2","5","-","0","4","-","0","1","T","1","8",":","0","0",":","0","0">>
T2100 == <<"2","0","2","5","-","0","4","-","0","1","T","2","1",":","0","0",":","0","0">>
NoColonUtc == <<"+","0","0","0","0">>
NotATime == <<"s","o","o","n">>

\* The event of test_fetch_events_successful.
RawFull(id) ==
  [id |-> Some(id), name |-> Some("Test Event"),
   description |-> Some("This is a test event"),
   start_time |-> Some(T1800 \o NoColonUtc),
   end_time |-> Some(T2100 \o NoColonUtc),
   place |-> Some([name |-> Some("Test Venue"),
                   location |-> Some([city |-> Some("Test City"),
                                      country |-> Some("Test Country")])]),
   is_online |-> Some(TRUE), attending_count |-> Some(10),
   interested_count |-> Some(20)]

\* A record that carries nothing but its id.
RawBare(id) == [id |-> Some(id)]

\* Records with one timestamp that does not parse.
RawBadStart(id) ==
  [id |-> Some(id), name |-> Some("Test Event"),
   start_time |-> Some(NotATime), end_time |-> Some(T2100 \o <<"Z">>)]

RawBadEnd(id) ==
  [id |-> Some(id), name |-> Some("Test Event"),
   start_time |-> Some(T1800 \o <<"Z">>), end_time |-> Some(NotATime)]

\* A record whose name is present and null.
RawNullName(id) == [id |-> Some(id), name |-> NULL]

\* A record whose optional keys are all present and null.
RawNulls(id) ==
  [id |-> Some(id), name |-> Some("Test Event"), description |-> NULL,
   start_time |-> NULL, end_time |-> NULL, is_online |-> NULL,
   attending_count |-> NULL, interested_count |-> NULL]

\* Records with every field, with the id alone, and with null values.
RawFields == {RawFull("ev1"), RawBare("ev1"), RawNullName("ev1"), RawNulls("ev1")}

\* The records a source response of the concurrent specification is made of.
RawSmall == {RawFull("ev1"), RawBare("ev1")}

\* The records of the page, queue and limit specifications.
RawOne == {RawFull("ev1")}
RawTwo == {RawFull("ev1"), RawFull("ev2")}
RawMin == {RawBare("ev1")}

\* Timestamp strings as the source may write them: with an offset of four
\* digits of either sign, with the colon already there, with a Z, without an
\* offset, with an offset of two digits, with a Z between date and time, and
\* strings that are not timestamps.
ZSeparated == <<"2","0","2","5","-","0","4","-","0","1","Z","1","8",":","0","0",":","0","0">>

TimeStrings ==
  {T1800 \o <<"+","0","2","0","0">>, T1800 \o <<"-","0","5","0","0">>,
   T1800 \o <<"+","0","2",":","0","0">>, T1800 \o <<"-","0","5",":","0","0">>,
   T1800 \o <<"Z">>, T1800, T1800 \o <<"+","0","2">>,
   ZSeparated \o <<"Z">>, ZSeparated \o <<"+","0","2","0","0">>,
   NotATime, <<"1","+","1">>, <<"Z">>}

\* Records with one timestamp each.
RawStart(id, t) == [id |-> Some(id), name |-> Some("Test Event"), start_time |-> Some(t)]
RawEnd(id, t) == [id |-> Some(id), name |-> Some("Test Event"), end_time |-> Some(t)]

RawTimes == {RawStart("ev1", t) : t \in TimeStrings} \cup {RawEnd("ev1", t) : t \in TimeStrings}

\* The records of the sequential specification.
RawAll ==
  {RawFull("ev1"), RawBare("ev1"), RawBadStart("ev1"), RawBadEnd("ev1"),
   RawNullName("ev1"), RawFull("ev2")}

\* What one GET .../events can come back as.  http_error: a transport error or
\* a non-success status; bad_json: a body that is not JSON; otherwise the
\* parsed body: an object with a data array, an object without the key, an
\* object whose data is null, or a JSON value that is not an object.  Of a data
\* array the response fixes the length n; its records are drawn one by one as
\* the loop of fetch_events reaches them.
SourceFailures == {"http_error", "bad_json", "no_data_key", "data_null", "not_object"}

EventResponses(kinds) ==
  {[kind |-> k] : k \in kinds}
  \cup {[kind |-> "data", n |-> n] : n \in 0..MaxData}

\* Responses whose paging object carries the link to a next page.
PagedResponses ==
  {[kind |-> "data", n |-> n, next |-> "https://graph.facebook.com/v17.0/next_page"] :
     n \in 1..MaxData}

\* The answers of the source in each specification.
ResponsesSmall == EventResponses({"http_error", "bad_json"})
ResponsesAll == EventResponses(SourceFailures)
ResponsesPaged == EventResponses(SourceFailures) \cup PagedResponses
ResponsesMin == EventResponses({"http_error"})

\* The limit query parameter of POST /pages/{id}/fetch, 10 when it is not given.
DefaultLimit == 10

\* The candidates of POST /pages/ and the page-info responses.
Candidates(fbids, names, descs, urls) ==
  [fb_page_id : fbids, name : names, description : descs, page_url : urls]

CandidatesOne == Candidates({"page123"}, {Some("Caller Name")}, {NULL}, {NULL})

CandidatesSmall == Candidates(PageFbIds, {Some("Caller Name")}, {NULL}, {NULL})

CandidatesAll ==
  Candidates(PageFbIds, {Some(""), Some("Caller Name")},
             {NULL, Some("Caller Description")},
             {NULL, Some("https://caller.example/page")})

PageInfoNone == {[kind |-> "http_error"]}

PageInfoSmall == {[kind |-> "http_error"],
                  [kind |-> "ok", info |-> [name |-> Some("Test Page")]]}

PageInfoAll ==
  {[kind |-> "http_error"], [kind |-> "bad_json"]}
  \cup {[kind |-> "ok", info |-> i] :
        i \in {[id |-> Some("123456789")],
               [id |-> Some("123456789"), name |-> Some("Test Page"),
                link |-> Some("https://facebook.com/testpage")],
               [name |-> Some("Test Page"), description |-> Some("About"),
                link |-> Some("https://facebook.com/testpage")]}}

(***************************************************************************)
(* State.                                                                  *)
(*   pages, events   the two tables, as sets of rows                       *)
(*   nextPageId, nextEventId   the autoincrement counters                  *)
(*   wk[w]   the request worker w is serving: where it stands (pc), its    *)
(*           locals, and the outcome of the last request it finished (out) *)
(*   events_to_analyze   the Redis list of that key, head first            *)
(*   scheduled_pages     the Redis set of that key                         *)
(*   page_fetch_config   the Redis hash of that key: one record per field  *)
(*   max_events_per_page the ceiling FacebookService read at construction  *)
(***************************************************************************)
VARIABLES pages, events, nextPageId, nextEventId, wk,
          events_to_analyze, scheduled_pages, page_fetch_config,
          max_events_per_page

vars == <<pages, events, nextPageId, nextEventId, wk,
          events_to_analyze, scheduled_pages, page_fetch_config,
          max_events_per_page>>

\* What the handlers of pages and events never touch.
redisVars == <<events_to_analyze, scheduled_pages, page_fetch_config>>

\* The outcome of a request.  limit is the limit the request came with, sent
\* the count the request to the source asked for, paged whether the source's answer carried a link to a next page,
\* n the length of the data array of the answer;
\* handed is the list given to the background task, tries the number of LPUSH
\* commands it issued and queued what it returned.
NoOutcome ==
  [op |-> "none", status |-> "none", exc |-> "", page |-> NULL, events |-> <<>>,
   cand |-> NULL, on |-> NULL, reqs |-> 0, src |-> "none",
   limit |-> NULL, sent |-> NULL, paged |-> FALSE, n |-> 0,
   handed |-> <<>>, tries |-> 0, queued |-> "none"]

IdleWorker ==
  [pc |-> "idle", op |-> "none", page |-> NULL, cand |-> NULL, info |-> NULL,
   left |-> 0,
   ev |-> NULL, found |-> NULL, rowid |-> NULL, result |-> <<>>, snap |-> {},
   reqs |-> 0, src |-> "none", limit |-> NULL, sent |-> NULL, paged |-> FALSE,
   n |-> 0, seen |-> <<>>,
   ids |-> <<>>, out |-> NoOutcome]

\* The worker me after its request ended: with a value (status "ok"), with a
\* 404 ("notfound") or with an exception that nothing caught ("raised").  The
\* outcome keeps the candidate given, the page the request held, the number of
\* requests sent to the external source and the kind of the source's answer.
Finished(me, status, exc, retPage, retEvents) ==
  [IdleWorker EXCEPT !.out =
     [NoOutcome EXCEPT
        !.op = me.op, !.status = status, !.exc = exc, !.page = retPage,
        !.events = retEvents, !.cand = me.cand, !.on = me.page, !.reqs = me.reqs,
        !.src = me.src, !.limit = me.limit, !.sent = me.sent,
        !.paged = me.paged, !.n = me.n]]

Raised(me, exc) == Finished(me, "raised", exc, NULL, <<>>)

\* [event.id for event in events]
HandedIdsNone(evs) == <<>>

HandedIds(evs) == [i \in 1..Len(evs) |-> evs[i].id]

\* The fetch handler returns the list: the response is fixed, and the call of
\* queue_events_for_analysis on the ids of the list is left to run as a
\* background task of the request.
Returned(me, retEvents) ==
  [IdleWorker EXCEPT
     !.pc = "task", !.ids = HandedIds(retEvents),
     !.out = [Finished(me, "ok", "", NULL, retEvents).out EXCEPT
                !.handed = HandedIds(retEvents)]]

\* The state after the module is loaded: empty tables, empty Redis keys, and
\* the ceiling one of ceilings.
InitWith(ceilings) ==
  /\ pages = {}
  /\ events = {}
  /\ nextPageId = 1
  /\ nextEventId = 1
  /\ wk = [w \in Workers |-> IdleWorker]
  /\ events_to_analyze = <<>>
  /\ scheduled_pages = {}
  /\ page_fetch_config = {}
  /\ max_events_per_page \in ceilings

\* int(os.getenv("MAX_EVENTS_PER_PAGE", "100")) with the variable unset.
DefaultMaxEventsPerPage == 100

Init == InitWith({DefaultMaxEventsPerPage})

(***************************************************************************)
(* POST /pages/  ->  FacebookService.add_page                              *)
(***************************************************************************)
\* The lookup by external id; an existing page is returned as it is.
AddPageStart(w, cand) ==
  /\ wk[w] = IdleWorker
  /\ LET existing == QueryPageByFbId(pages, cand.fb_page_id)
         me == [wk[w] EXCEPT !.op = "add_page", !.cand = Some(cand)]
     IN  wk' = [wk EXCEPT ![w] =
           IF existing # {}
           THEN LET row == The(existing)
                IN  IF PageResponseRaises(row)
                    THEN Raised(me, "ValidationError")
                    ELSE Finished(me, "ok", "", Some(row), <<>>)
           ELSE [me EXCEPT !.pc = "page_info"]]
  /\ UNCHANGED <<pages, events, nextPageId, nextEventId>>
  /\ UNCHANGED <<redisVars, max_events_per_page>>

\* The GET of the page info, and the enrichment of the candidate.
AddPageInfo(w, resp) ==
  /\ wk[w].pc = "page_info"
  /\ LET me == [wk[w] EXCEPT !.reqs = @ + 1, !.src = resp.kind]
     IN  wk' = [wk EXCEPT ![w] =
           IF resp.kind = "ok"
           THEN [me EXCEPT !.pc = "page_commit", !.info = Some(resp.info),
                           !.cand = Some(EnrichPage(The(@), resp.info))]
           ELSE IF PageInfoErrorCaught(resp.kind)
           THEN [me EXCEPT !.pc = "page_commit"]
           ELSE Raised(me, "JSONDecodeError")]
  /\ UNCHANGED <<pages, events, nextPageId, nextEventId>>
  /\ UNCHANGED <<redisVars, max_events_per_page>>

\* db.add, db.commit, db.refresh, Page.from_orm.
AddPageCommit(w) ==
  /\ wk[w].pc = "page_commit"
  /\ LET cand == The(wk[w].cand)
         row == NewPageRow(nextPageId, cand)
     IN  IF UniquePageViolation(pages, cand.fb_page_id)
         THEN /\ wk' = [wk EXCEPT ![w] = Raised(wk[w], "IntegrityError: duplicate entry")]
              /\ UNCHANGED <<pages, nextPageId>>
         ELSE /\ nextPageId <= MaxPageId
              /\ pages' = pages \cup {row}
              /\ nextPageId' = nextPageId + 1
              /\ wk' = [wk EXCEPT ![w] =
                   IF PageResponseRaises(row) THEN Raised(wk[w], "ValidationError")
                   ELSE Finished(wk[w], "ok", "", Some(row), <<>>)]
  /\ UNCHANGED <<events, nextEventId>>
  /\ UNCHANGED <<redisVars, max_events_per_page>>

(***************************************************************************)
(* DELETE /pages/{page_id}  ->  FacebookService.delete_page                *)
(***************************************************************************)
\* relationship("Event", cascade="all, delete-orphan"): db.delete(db_page)
\* loads the page's events, which are deleted with it.
CascadeEvents(evs, pageId) == {r.id : r \in {e \in evs : e.fb_page_id = pageId}}

\* The lookup of the page and db.delete: the session now holds the page and
\* the events it read for the cascade.
DeletePageStart(w, pageId) ==
  /\ wk[w] = IdleWorker
  /\ LET found == QueryPageById(pages, pageId)
         me == [wk[w] EXCEPT !.op = "delete_page"]
     IN  wk' = [wk EXCEPT ![w] =
           IF found = {}
           THEN Finished(me, "notfound", "", NULL, <<>>)
           ELSE [me EXCEPT !.pc = "del_commit", !.page = Some(The(found)),
                           !.snap = CascadeEvents(events, pageId)]]
  /\ UNCHANGED <<pages, events, nextPageId, nextEventId>>
  /\ UNCHANGED <<redisVars, max_events_per_page>>

\* db.commit: the DELETEs of the events read and of the page.  An event of the
\* page that the session did not read still references it, and the store
\* refuses the DELETE of the page.
DeletePageCommit(w) ==
  /\ wk[w].pc = "del_commit"
  /\ LET page == The(wk[w].page)
         left == {r \in events : r.id \notin wk[w].snap}
     IN  IF \E r \in left : r.fb_page_id = page.id /\ ForeignKeyViolation(pages \ {page}, r.fb_page_id)
         THEN /\ wk' = [wk EXCEPT ![w] = Raised(wk[w], "IntegrityError: foreign key")]
              /\ UNCHANGED <<pages, events>>
         ELSE /\ events' = left
              /\ pages' = {p \in pages : p.id # page.id}
              /\ wk' = [wk EXCEPT ![w] = Finished(wk[w], "ok", "", NULL, <<>>)]
  /\ UNCHANGED <<nextPageId, nextEventId>>
  /\ UNCHANGED <<redisVars, max_events_per_page>>

(***************************************************************************)
(* POST /pages/{page_id}/fetch  ->  FacebookService.fetch_events           *)
(***************************************************************************)
\* A request that sends the limit on as it came.
ClampLimitNone(limit, ceiling) == limit

\* min(limit, self.max_events_per_page)
ClampLimit(limit, ceiling) == IF limit <= ceiling THEN limit ELSE ceiling

\* A call that also fetches the next page when the answer links to one.
SourceRequestsPaged(resp) == IF "next" \in DOMAIN resp THEN 2 ELSE 1

\* client.get(url) is called once: there is no loop around it, and the paging
\* object of the answer is not read.
SourceRequests(resp) == 1

\* A list built newest first.
AppendEventFirst(result, row) == <<row>> \o result

\* events.append(EventResponse.from_orm(db_event))
AppendEvent(result, row) == Append(result, row)

\* get_page: the handler takes a snapshot of the page, or answers 404.
FetchStart(w, pageId) ==
  /\ wk[w] = IdleWorker
  /\ LET found == QueryPageById(pages, pageId)
         me == [wk[w] EXCEPT !.op = "fetch"]
     IN  wk' = [wk EXCEPT ![w] =
           IF found = {} THEN Finished(me, "notfound", "", NULL, <<>>)
           ELSE IF PageResponseRaises(The(found)) THEN Raised(me, "ValidationError")
           ELSE [me EXCEPT !.pc = "source", !.page = Some(The(found))]]
  /\ UNCHANGED <<pages, events, nextPageId, nextEventId>>
  /\ UNCHANGED <<redisVars, max_events_per_page>>

\* The GET of the page's events: client.get, raise_for_status, response.json
\* and event_data.get("data", []).
\* limit is the request's query parameter; it is read here, where the URL is
\* built.
FetchSource(w, limit, resp) ==
  /\ wk[w].pc = "source"
  /\ LET me == [wk[w] EXCEPT !.reqs = @ + SourceRequests(resp), !.src = resp.kind,
                             !.limit = Some(limit),
                             !.n = IF resp.kind = "data" THEN resp.n ELSE 0,
                             !.sent = Some(ClampLimit(limit, max_events_per_page)),
                             !.paged = "next" \in DOMAIN resp]
     IN  wk' = [wk EXCEPT ![w] =
           CASE resp.kind = "data" ->
                  IF resp.n = 0 THEN Returned(me, <<>>)
                  ELSE [me EXCEPT !.pc = "lookup", !.left = resp.n]
             [] resp.kind = "no_data_key" -> Returned(me, <<>>)
             [] resp.kind = "data_null" -> Raised(me, "TypeError")
             [] resp.kind = "not_object" -> Raised(me, "AttributeError")
             [] OTHER ->
                  IF FetchErrorCaught(resp.kind) THEN Returned(me, <<>>)
                  ELSE Raised(me, "JSONDecodeError")]
  /\ UNCHANGED <<pages, events, nextPageId, nextEventId>>
  /\ UNCHANGED <<redisVars, max_events_per_page>>

\* The next record ev of the data array: the derivation of its fields and the
\* lookup by external id.
FetchLookup(w, ev) ==
  /\ wk[w].pc = "lookup"
  /\ LET rows == QueryEventByFbId(events, Derive(ev).fb_event_id)
     IN  IF PlaceRaises(ev)
         THEN wk' = [wk EXCEPT ![w] = Raised(wk[w], "TypeError")]
         ELSE IF rows = {}
         THEN wk' = [wk EXCEPT ![w] = [@ EXCEPT !.pc = "commit", !.ev = Some(ev),
                                                !.found = NULL,
                                                !.seen = Append(@, Derive(ev).fb_event_id)]]
         ELSE \E r \in rows :
                wk' = [wk EXCEPT ![w] = [@ EXCEPT !.pc = "commit", !.ev = Some(ev),
                                                  !.found = Some(r.id),
                                                  !.seen = Append(@, Derive(ev).fb_event_id)]]
  /\ UNCHANGED <<pages, events, nextPageId, nextEventId>>
  /\ UNCHANGED <<redisVars, max_events_per_page>>

\* db.add or the assignments to the row found, and db.commit.  The UPDATE of a
\* row that is gone matches nothing (StaleDataError); an INSERT the store
\* refuses is an IntegrityError.  Neither is caught.
FetchCommit(w) ==
  /\ wk[w].pc = "commit"
  /\ LET d == Derive(The(wk[w].ev))
         page == The(wk[w].page)
     IN  IF wk[w].found = NULL
         THEN IF UniqueEventViolation(events, d.fb_event_id)
              THEN /\ wk' = [wk EXCEPT ![w] = Raised(wk[w], "IntegrityError: duplicate entry")]
                   /\ UNCHANGED <<events, nextEventId>>
              ELSE IF ForeignKeyViolation(pages, page.id)
              THEN /\ wk' = [wk EXCEPT ![w] = Raised(wk[w], "IntegrityError: foreign key")]
                   /\ UNCHANGED <<events, nextEventId>>
              ELSE /\ nextEventId <= MaxEventId
                   /\ events' = events \cup {NewEventRow(nextEventId, page.id, d)}
                   /\ nextEventId' = nextEventId + 1
                   /\ wk' = [wk EXCEPT ![w] = [@ EXCEPT !.pc = "refresh",
                                                        !.rowid = Some(nextEventId)]]
         ELSE LET old == GetEvent(events, The(wk[w].found))
              IN  IF old = {}
                  THEN /\ wk' = [wk EXCEPT ![w] = Raised(wk[w], "StaleDataError")]
                       /\ UNCHANGED <<events, nextEventId>>
                  ELSE /\ events' = (events \ old) \cup {UpdateEventRow(The(old), d)}
                       /\ wk' = [wk EXCEPT ![w] = [@ EXCEPT !.pc = "refresh",
                                                            !.rowid = wk[w].found]]
                       /\ UNCHANGED nextEventId
  /\ UNCHANGED <<pages, nextPageId>>
  /\ UNCHANGED <<redisVars, max_events_per_page>>

\* db.refresh(db_event), EventResponse.from_orm and events.append; after the
\* last record the list is returned.
FetchRefresh(w) ==
  /\ wk[w].pc = "refresh"
  /\ LET row == GetEvent(events, The(wk[w].rowid))
     IN  wk' = [wk EXCEPT ![w] =
           IF row = {} THEN Raised(wk[w], "InvalidRequestError")
           ELSE IF EventResponseRaises(The(row)) THEN Raised(wk[w], "ValidationError")
           ELSE IF wk[w].left = 1
           THEN Returned(wk[w], AppendEvent(wk[w].result, The(row)))
           ELSE [@ EXCEPT !.pc = "lookup", !.left = @ - 1, !.ev = NULL,
                          !.found = NULL, !.rowid = NULL,
                          !.result = AppendEvent(@, The(row))]]
  /\ UNCHANGED <<pages, events, nextPageId, nextEventId>>
  /\ UNCHANGED <<redisVars, max_events_per_page>>

(***************************************************************************)
(* QueueService (app/services/queue_service.py).  A Redis command either   *)
(* takes effect ("ok") or raises an error of the transport.                *)
(***************************************************************************)
RedisOutcomes == {"ok", "ConnectionError"}

\* A client that could not be built.
RedisUnavailable == FALSE

\* self.redis after __init__: redis.from_url builds the client and its pool
\* without opening a connection, so it does not raise ConnectionError and
\* self.redis is the client.
RedisAvailable == TRUE

\* A push that is acknowledged and lost.
LPushLost(list, value) == list

\* LPUSH key value: the value becomes the head of the list.
LPush(list, value) == <<value>> \o list

\* SADD, SREM on a set; HSET, HDEL on a hash kept as a set of field/value
\* entries, one per field.
SAdd(set, member) == set \cup {member}
SRem(set, member) == set \ {member}
HSet(hash, field, value) ==
  {e \in hash : e.field # field} \cup {[field |-> field, value |-> value]}
HDel(hash, field) == {e \in hash : e.field # field}

\* int(os.getenv("FETCH_INTERVAL", "3600")) with the variable unset.
FetchInterval == 3600

\* The config record schedule_page_fetch stores (as JSON) for a page.
FetchConfig(pageId) ==
  [page_id |-> pageId, interval |-> FetchInterval, last_fetch |-> 0]

\* An error of a Redis command that nothing catches.
QueueErrorUncaught(outcome) == FALSE

\* except Exception in the methods of QueueService: every error of a command.
QueueErrorCaught(outcome) == TRUE

\* A handler that waits for the task and fails the request when it failed.
BackgroundResultSurfaced(out, queued) ==
  [out EXCEPT !.queued = queued,
              !.status = IF queued = "true" THEN @ ELSE "raised"]

\* background_tasks.add_task: the task runs after the response is fixed and
\* what it returns goes nowhere; the model keeps it beside the response.
BackgroundResult(out, queued) == [out EXCEPT !.queued = queued]

\* The end of the background task of worker me.
TaskDone(me, queued) ==
  [IdleWorker EXCEPT !.out = BackgroundResult(me.out, queued)]

\* One turn of the loop of queue_events_for_analysis: the LPUSH of the next id.
\* An error ends the call with False; the ids pushed before it stay pushed.
QueuePush(w, outcome) ==
  /\ wk[w].pc = "task"
  /\ wk[w].ids # <<>>
  /\ IF ~RedisAvailable
     THEN /\ wk' = [wk EXCEPT ![w] = TaskDone(wk[w], "false")]
          /\ UNCHANGED events_to_analyze
     ELSE LET me == [wk[w] EXCEPT !.out.tries = @ + 1]
          IN  IF outcome = "ok"
              THEN /\ Len(events_to_analyze) < MaxQueue
                   /\ events_to_analyze' = LPush(events_to_analyze, Head(wk[w].ids))
                   /\ wk' = [wk EXCEPT ![w] = [me EXCEPT !.ids = Tail(@)]]
              ELSE /\ wk' = [wk EXCEPT ![w] =
                        IF QueueErrorCaught(outcome) THEN TaskDone(me, "false")
                        ELSE TaskDone(me, "raised")]
                   /\ UNCHANGED events_to_analyze
  /\ UNCHANGED <<pages, events, nextPageId, nextEventId>>
  /\ UNCHANGED <<scheduled_pages, page_fetch_config, max_events_per_page>>

\* The loop is over (or the list was empty): return True.
QueueReturn(w) ==
  /\ wk[w].pc = "task"
  /\ wk[w].ids = <<>>
  /\ wk' = [wk EXCEPT ![w] =
       TaskDone(wk[w], IF RedisAvailable THEN "true" ELSE "false")]
  /\ UNCHANGED <<pages, events, nextPageId, nextEventId>>
  /\ UNCHANGED <<redisVars, max_events_per_page>>

(***************************************************************************)
(* POST and DELETE /pages/{page_id}/schedule                               *)
(***************************************************************************)
\* A handler that answers 200 whatever the queue call returned.
ScheduleResponseIgnored(success) == "ok"

\* if not success: raise HTTPException(status_code=500, ...), of either
\* handler: "failed" is the 500, "ok" the 200 with the message.
ScheduleResponse(success) == IF success THEN "ok" ELSE "failed"

\* The queue call returned success and the handler answers; queued keeps what
\* the call returned.
ScheduleEnded(me, success) ==
  [Finished(me, ScheduleResponse(success), "", NULL, <<>>) EXCEPT
     !.out.queued = IF success THEN "true" ELSE "false"]

\* get_page of either handler: 404 when the page is not stored.
ScheduleStart(w, pageId, op) ==
  /\ wk[w] = IdleWorker
  /\ LET found == QueryPageById(pages, pageId)
         me == [wk[w] EXCEPT !.op = op]
     IN  wk' = [wk EXCEPT ![w] =
           IF found = {} THEN Finished(me, "notfound", "", NULL, <<>>)
           ELSE IF PageResponseRaises(The(found)) THEN Raised(me, "ValidationError")
           ELSE IF ~RedisAvailable THEN ScheduleEnded(me, FALSE)
           ELSE [me EXCEPT !.pc = IF op = "schedule" THEN "sadd" ELSE "srem",
                           !.page = Some(The(found))]]
  /\ UNCHANGED <<pages, events, nextPageId, nextEventId>>
  /\ UNCHANGED <<redisVars, max_events_per_page>>

\* A command of schedule_page_fetch or unschedule_page_fetch raised: the method
\* returns False and the handler answers 500.
ScheduleFailed(me, outcome) ==
  IF QueueErrorCaught(outcome) THEN ScheduleEnded(me, FALSE)
  ELSE Raised(me, outcome)

\* self.redis.sadd("scheduled_pages", page_id)
ScheduleSadd(w, outcome) ==
  /\ wk[w].pc = "sadd"
  /\ IF outcome = "ok"
     THEN /\ scheduled_pages' = SAdd(scheduled_pages, The(wk[w].page).id)
          /\ wk' = [wk EXCEPT ![w] = [@ EXCEPT !.pc = "hset"]]
     ELSE /\ wk' = [wk EXCEPT ![w] = ScheduleFailed(wk[w], outcome)]
          /\ UNCHANGED scheduled_pages
  /\ UNCHANGED <<pages, events, nextPageId, nextEventId>>
  /\ UNCHANGED <<events_to_analyze, page_fetch_config, max_events_per_page>>

\* self.redis.hset("page_fetch_config", page_id, json.dumps(config))
ScheduleHset(w, outcome) ==
  /\ wk[w].pc = "hset"
  /\ IF outcome = "ok"
     THEN /\ page_fetch_config' =
               HSet(page_fetch_config, The(wk[w].page).id, FetchConfig(The(wk[w].page).id))
          /\ wk' = [wk EXCEPT ![w] = ScheduleEnded(wk[w], TRUE)]
     ELSE /\ wk' = [wk EXCEPT ![w] = ScheduleFailed(wk[w], outcome)]
          /\ UNCHANGED page_fetch_config
  /\ UNCHANGED <<pages, events, nextPageId, nextEventId>>
  /\ UNCHANGED <<events_to_analyze, scheduled_pages, max_events_per_page>>

\* self.redis.srem("scheduled_pages", page_id)
UnscheduleSrem(w, outcome) ==
  /\ wk[w].pc = "srem"
  /\ IF outcome = "ok"
     THEN /\ scheduled_pages' = SRem(scheduled_pages, The(wk[w].page).id)
          /\ wk' = [wk EXCEPT ![w] = [@ EXCEPT !.pc = "hdel"]]
     ELSE /\ wk' = [wk EXCEPT ![w] = ScheduleFailed(wk[w], outcome)]
          /\ UNCHANGED scheduled_pages
  /\ UNCHANGED <<pages, events, nextPageId, nextEventId>>
  /\ UNCHANGED <<events_to_analyze, page_fetch_config, max_events_per_page>>

\* self.redis.hdel("page_fetch_config", page_id)
UnscheduleHdel(w, outcome) ==
  /\ wk[w].pc = "hdel"
  /\ IF outcome = "ok"
     THEN /\ page_fetch_config' = HDel(page_fetch_config, The(wk[w].page).id)
          /\ wk' = [wk EXCEPT ![w] = ScheduleEnded(wk[w], TRUE)]
     ELSE /\ wk' = [wk EXCEPT ![w] = ScheduleFailed(wk[w], outcome)]
          /\ UNCHANGED page_fetch_config
  /\ UNCHANGED <<pages, events, nextPageId, nextEventId>>
  /\ UNCHANGED <<events_to_analyze, scheduled_pages, max_events_per_page>>

\* The external scheduler ran the fetch of a page it found in the hash and
\* wrote the time t into last_fetch of the page's config.
SchedulerMarks(pageId, t) ==
  /\ \E e \in page_fetch_config :
       /\ e.field = pageId
       /\ e.value.last_fetch # t
       /\ page_fetch_config' =
            HSet(page_fetch_config, pageId, [e.value EXCEPT !.last_fetch = t])
  /\ UNCHANGED <<pages, events, nextPageId, nextEventId, wk>>
  /\ UNCHANGED <<events_to_analyze, scheduled_pages, max_events_per_page>>

(***************************************************************************)
(* GET /pages/{page_id} and GET /events/{event_id}                         *)
(***************************************************************************)
\* read_page: get_page, 404 when it is None, else the page.
ReadPage(w, pageId) ==
  /\ wk[w] = IdleWorker
  /\ LET found == QueryPageById(pages, pageId)
         me == [wk[w] EXCEPT !.op = "read_page"]
     IN  wk' = [wk EXCEPT ![w] =
           IF found = {} THEN Finished(me, "notfound", "", NULL, <<>>)
           ELSE IF PageResponseRaises(The(found)) THEN Raised(me, "ValidationError")
           ELSE Finished(me, "ok", "", Some(The(found)), <<>>)]
  /\ UNCHANGED <<pages, events, nextPageId, nextEventId>>
  /\ UNCHANGED <<redisVars, max_events_per_page>>

\* read_event: get_event, 404 when it is None, else the event.
ReadEvent(w, eventId) ==
  /\ wk[w] = IdleWorker
  /\ LET found == GetEvent(events, eventId)
         me == [wk[w] EXCEPT !.op = "read_event"]
     IN  wk' = [wk EXCEPT ![w] =
           IF found = {} THEN Finished(me, "notfound", "", NULL, <<>>)
           ELSE IF EventResponseRaises(The(found)) THEN Raised(me, "ValidationError")
           ELSE Finished(me, "ok", "", NULL, <<The(found)>>)]
  /\ UNCHANGED <<pages, events, nextPageId, nextEventId>>
  /\ UNCHANGED <<redisVars, max_events_per_page>>

\* The handler returns and the response is sent: the request is over.
Respond(w) ==
  /\ wk[w].pc = "idle"
  /\ wk[w].out # NoOutcome
  /\ wk' = [wk EXCEPT ![w] = IdleWorker]
  /\ UNCHANGED <<pages, events, nextPageId, nextEventId>>
  /\ UNCHANGED <<redisVars, max_events_per_page>>

(***************************************************************************)
(* Specifications.  One step of the service, for the workers ws and the    *)
(* inputs the requests and the external source may bring.                  *)
(*   Spec       two requests in flight, interleaved at their store and     *)
(*              source calls, about one page and one external event id     *)
(*   EventSpec  one request at a time, over the full set of raw records    *)
(*   PageSpec   one request at a time, over the full set of candidates     *)
(*              and page-info responses                                    *)
(*   QueueSpec  one request at a time, with a queue transport that may     *)
(*              fail at any command (in the three above it is down)        *)
(*   LimitSpec  one request at a time, over the limits, the ceilings and   *)
(*              the answers of the source, paged ones included             *)
(*   SchedSpec  one request at a time, pages and schedule registrations    *)
(*   FieldSpec  one request at a time, over records whose fields are       *)
(*              given, absent or null                                      *)
(*   TimeSpec   one request at a time, over records with the timestamp     *)
(*              strings of TimeStrings                                     *)
(*   HttpSpec   one request at a time, every handler that takes an id of   *)
(*              the path, with a queue transport that may fail             *)
(***************************************************************************)
PageIds == 1..MaxPageId

Step(ws, cands, infos, resps, raws, limits, outcomes) ==
  \E w \in ws :
    \/ \E c \in cands : AddPageStart(w, c)
    \/ \E r \in infos : AddPageInfo(w, r)
    \/ AddPageCommit(w)
    \/ \E p \in PageIds : DeletePageStart(w, p)
    \/ DeletePageCommit(w)
    \/ \E p \in PageIds : FetchStart(w, p)
    \/ \E l \in limits, r \in resps : FetchSource(w, l, r)
    \/ \E ev \in raws : FetchLookup(w, ev)
    \/ FetchCommit(w)
    \/ FetchRefresh(w)
    \/ \E o \in outcomes : QueuePush(w, o)
    \/ QueueReturn(w)
    \/ Respond(w)

\* The limits of the requests, and a queue transport that is down.
LimitsOne == {DefaultLimit}
RedisDown == {"ConnectionError"}

Next ==
  Step(Workers, CandidatesOne, PageInfoSmall, ResponsesSmall, RawSmall,
       LimitsOne, RedisDown)

Spec == Init /\ [][Next]_vars

EventNext ==
  Step({1}, CandidatesSmall, PageInfoSmall, ResponsesAll, RawAll,
       LimitsOne, RedisDown)

EventSpec == Init /\ [][EventNext]_vars

PageNext ==
  Step({1}, CandidatesAll, PageInfoAll, ResponsesAll, RawOne,
       LimitsOne, RedisDown)

PageSpec == Init /\ [][PageNext]_vars

\* The queue handoff with a transport that may fail at any command.
QueueNext ==
  Step({1}, CandidatesOne, PageInfoNone, ResponsesMin, RawTwo,
       LimitsOne, RedisOutcomes)

QueueSpec == Init /\ [][QueueNext]_vars

\* The requested limits and the configured ceilings, with every kind of
\* answer of the source.
Limits == {-1, 0, 1, 10, 25, 26, 100, 101}
Ceilings == {1, 25, 100}

LimitNext ==
  Step({1}, CandidatesOne, PageInfoNone, ResponsesPaged, RawMin,
       Limits, RedisDown)

LimitSpec == InitWith(Ceilings) /\ [][LimitNext]_vars

EventIds == 1..MaxEventId

\* The two handlers of /pages/{page_id}/schedule.
Operations == {"schedule", "unschedule"}

\* Pages and their scheduled-fetch registrations.
MarkTimes == {1700000000}

SchedNext ==
  \/ \E c \in CandidatesSmall : AddPageStart(1, c)
  \/ \E r \in PageInfoNone : AddPageInfo(1, r)
  \/ AddPageCommit(1)
  \/ \E p \in PageIds : DeletePageStart(1, p)
  \/ DeletePageCommit(1)
  \/ \E p \in PageIds, op \in Operations : ScheduleStart(1, p, op)
  \/ \E o \in RedisOutcomes : ScheduleSadd(1, o)
  \/ \E o \in RedisOutcomes : ScheduleHset(1, o)
  \/ \E o \in RedisOutcomes : UnscheduleSrem(1, o)
  \/ \E o \in RedisOutcomes : UnscheduleHdel(1, o)
  \/ \E p \in PageIds, t \in MarkTimes : SchedulerMarks(p, t)
  \/ Respond(1)

SchedSpec == Init /\ [][SchedNext]_vars

\* Records whose fields are given, absent or null.
FieldNext ==
  Step({1}, CandidatesOne, PageInfoNone, ResponsesMin, RawFields,
       LimitsOne, RedisDown)

FieldSpec == Init /\ [][FieldNext]_vars

\* Records whose timestamps come in every shape.
TimeNext ==
  Step({1}, CandidatesOne, PageInfoNone, ResponsesMin, RawTimes,
       LimitsOne, RedisDown)

TimeSpec == Init /\ [][TimeNext]_vars

\* Every handler with an id in its path.
HttpNext ==
  \/ Step({1}, CandidatesOne, PageInfoNone, ResponsesMin, RawMin,
          LimitsOne, RedisOutcomes)
  \/ \E p \in PageIds, op \in Operations : ScheduleStart(1, p, op)
  \/ \E o \in RedisOutcomes : ScheduleSadd(1, o)
  \/ \E o \in RedisOutcomes : ScheduleHset(1, o)
  \/ \E o \in RedisOutcomes : UnscheduleSrem(1, o)
  \/ \E o \in RedisOutcomes : UnscheduleHdel(1, o)
  \/ \E p \in PageIds : ReadPage(1, p)
  \/ \E e \in EventIds : ReadEvent(1, e)

HttpSpec == Init /\ [][HttpNext]_vars

(***************************************************************************)
(* Claims.                                                                 *)
(***************************************************************************)
RowsOf(evs, fbid) == {r \in evs : r.fb_event_id = fbid}

C1_UniqueRows ==
  \A r1, r2 \in events :
    r1.fb_event_id # NULL /\ r1.fb_event_id = r2.fb_event_id => r1 = r2

\* The commit of a record whose external id is stored: the call goes on, no row
\* is added, and the row of that external id is the row it was.
C1_InPlace ==
  \A w \in Workers :
    LET fbid == Derive(The(wk[w].ev)).fb_event_id
    IN  (wk[w].pc = "commit" /\ wk'[w] # wk[w] /\ RowsOf(events, fbid) # {})
        => /\ wk'[w].pc = "refresh"
           /\ Cardinality(events') = Cardinality(events)
           /\ {r.id : r \in RowsOf(events', fbid)} = {r.id : r \in RowsOf(events, fbid)}

\* C1: after any sequence of fetch_events calls the store holds at most one
\* Event row per external id; ingesting an external id that is already stored
\* updates the existing row in place and never inserts a second row.
C1_OneRowPerExternalId == []C1_UniqueRows /\ [][C1_InPlace]_vars

\* C1 witness: the same external id came twice in one response; the second
\* record was committed onto the row the first one inserted.
C1_Witness ==
  \E w \in Workers :
    /\ wk[w].pc = "refresh" /\ wk[w].found # NULL
    /\ Len(wk[w].result) = 1 /\ wk[w].result[1].id = The(wk[w].rowid)
    /\ Cardinality(events) = 1

\* C2: two concurrent fetch_events calls that ingest the same new external id
\* both complete normally in every interleaving: neither ends with the store
\* refusing its INSERT as a duplicate of the other's.
C2_ConcurrentUpsertCompletes ==
  \A w \in Workers :
    ~(wk[w].out.op = "fetch" /\ wk[w].out.exc = "IntegrityError: duplicate entry")

MutableFields ==
  {"name", "description", "event_url", "location", "start_time", "end_time",
   "is_online", "attending_count", "interested_count"}

C3_Overwritten ==
  \A w \in Workers :
    (wk[w].pc = "commit" /\ wk[w].found # NULL /\ wk'[w].pc = "refresh")
    => LET d == Derive(The(wk[w].ev))
           rows == {r \in events' : r.id = The(wk[w].found)}
       IN  /\ Cardinality(events') = Cardinality(events)
           /\ Cardinality(rows) = 1
           /\ \A r \in rows : \A f \in MutableFields : r[f] = d[f]
           /\ RowsOf(events', d.fb_event_id) = rows

\* C3: the upsert is a full overwrite: after a record with a stored external id
\* is ingested, every mutable field of the row equals the value derived from
\* the new record (a null or absent field is cleared), and there is still
\* exactly one row of that external id.
C3_FullOverwrite == [][C3_Overwritten]_vars

\* C3 witness: a row that this call returned with a description has just been
\* overwritten by a record without one, and its description is now null.
C3_Witness ==
  \E w \in Workers :
    /\ wk[w].pc = "refresh" /\ wk[w].found # NULL
    /\ Len(wk[w].result) = 1 /\ wk[w].result[1].id = The(wk[w].rowid)
    /\ wk[w].result[1].description # NULL
    /\ \E r \in events : r.id = The(wk[w].rowid) /\ r.description = NULL

C4_FailureStep ==
  \A w \in Workers :
    (wk[w].pc = "source" /\ wk'[w].out.src = "http_error")
    => /\ wk'[w].out.status = "ok"
       /\ wk'[w].out.events = <<>>
       /\ events' = events /\ pages' = pages
       /\ \A p \in pages : GetEvents(events', Some(p.id)) = GetEvents(events, Some(p.id))
       /\ \A r \in events : GetEvent(events', r.id) = {r}

\* C4: when the call to the external source fails (transport error or
\* non-success status), fetch_events does not raise, returns the empty list and
\* leaves the store as it was: the read accessors return what they returned.
C4_SourceFailureIsEmpty == [][C4_FailureStep]_vars

\* C4 witness: a fetch of a page that has stored events ended on a source
\* failure.
C4_Witness ==
  \E w \in Workers :
    /\ wk[w].out.op = "fetch" /\ wk[w].out.src = "http_error"
    /\ wk[w].out.status = "ok"
    /\ GetEvents(events, Some(The(wk[w].out.on).id)) # {}

\* C5: a malformed payload (a body that is not JSON, or JSON that is not an
\* object with a data array) is handled like a transport failure: the call does
\* not raise and, for fetch_events, returns the empty list.
C5_MalformedPayloadDegrades ==
  \A w \in Workers :
    wk[w].out.src \in {"bad_json", "data_null", "not_object"}
    => /\ wk[w].out.status = "ok"
       /\ wk[w].out.events = <<>>

\* Each timestamp parsed on its own.
ParsedAlone(ev, key) ==
  LET s == Get(ev, key, NULL)
  IN  IF TruthySeq(s) THEN ParseTimeStr(The(s)) ELSE NULL

\* C6: start and end timestamp are normalized independently: the row committed
\* for a record holds in each of the two fields the parse of that field's own
\* string, null only when that string does not parse.
C6_TimestampsIndependent ==
  \A w \in Workers :
    wk[w].pc = "refresh"
    => \A r \in GetEvent(events, The(wk[w].rowid)) :
         /\ r.start_time = ParsedAlone(The(wk[w].ev), "start_time")
         /\ r.end_time = ParsedAlone(The(wk[w].ev), "end_time")

\* A step in which worker w begins add_page.
BeginsAddPage(w) ==
  /\ wk[w] = IdleWorker
  /\ wk'[w] # IdleWorker
  /\ (wk'[w].op = "add_page" \/ wk'[w].out.op = "add_page")

C7_ExistingReturned ==
  \A w \in Workers :
    LET c == The(IF wk'[w].cand # NULL THEN wk'[w].cand ELSE wk'[w].out.cand)
        stored == {p \in pages : p.fb_page_id = c.fb_page_id}
    IN  (BeginsAddPage(w) /\ stored # {})
        => /\ wk'[w].out.status = "ok"
           /\ wk'[w].out.page = stored
           /\ wk'[w].out.reqs = 0
           /\ pages' = pages /\ nextPageId' = nextPageId

\* C7: add_page of an external id that is stored returns the stored Page with
\* its fields as they are, sends no request to the external source and inserts
\* no row.
C7_AddPageIdempotent == [][C7_ExistingReturned]_vars

\* C7 witness: add_page returned a stored page whose name is not the
\* candidate's.
C7_Witness ==
  \E w \in Workers :
    /\ wk[w].out.op = "add_page" /\ wk[w].out.status = "ok" /\ wk[w].out.reqs = 0
    /\ wk[w].out.page # NULL /\ wk[w].out.page \subseteq pages
    /\ The(wk[w].out.page).name # The(wk[w].out.cand).name

\* The commit of add_page inserts one row that carries the candidate's fields,
\* active, and returns it.
InsertsCandidate(w) ==
  LET c == The(wk[w].cand)
  IN  /\ wk'[w].out.status = "ok"
      /\ \E row \in pages' :
           /\ row \notin pages /\ pages' = pages \cup {row}
           /\ row.fb_page_id = c.fb_page_id
           /\ row.name = c.name /\ row.description = c.description
           /\ row.page_url = c.page_url
           /\ row.is_active
           /\ wk'[w].out.page = {row}

C8_Swallowed ==
  \A w \in Workers :
    /\ (wk[w].pc = "page_info" /\ wk'[w] # wk[w]
          /\ (wk'[w].src = "http_error" \/ wk'[w].out.src = "http_error"))
       => (wk'[w].pc = "page_commit" /\ wk'[w].cand = wk[w].cand)
    /\ (wk[w].pc = "page_commit" /\ wk[w].src = "http_error" /\ wk'[w] # wk[w])
       => InsertsCandidate(w)

\* C8: when the page-info request of add_page fails (transport error or
\* non-success status), add_page does not raise: one Page row is inserted with
\* the caller's name, description and url and active = true, and is returned.
C8_LookupFailureSwallowed == [][C8_Swallowed]_vars

\* C8 witness: add_page ended normally after a failed page-info request.
C8_Witness ==
  \E w \in Workers :
    /\ wk[w].out.op = "add_page" /\ wk[w].out.src = "http_error"
    /\ wk[w].out.status = "ok" /\ wk[w].out.page \subseteq pages
    /\ The(wk[w].out.page).page_url # NULL

\* Field f of the candidate after the enrichment: the caller's value when the
\* caller gave one, else the source's value under key k when there is one, else
\* unset as it was.
TakenFrom(c, c2, info, f, k) ==
  IF c[f] # NULL /\ c[f] # Some("") THEN c2[f] = c[f]
  ELSE IF k \in DOMAIN info THEN c2[f] = info[k]
  ELSE c2[f] = c[f]

C9_Enriched ==
  \A w \in Workers :
    /\ (wk[w].pc = "page_info" /\ wk'[w].pc = "page_commit" /\ wk'[w].src = "ok")
       => LET c == The(wk[w].cand)
              c2 == The(wk'[w].cand)
              info == The(wk'[w].info)
          IN  /\ c2.fb_page_id = c.fb_page_id
              /\ TakenFrom(c, c2, info, "name", "name")
              /\ TakenFrom(c, c2, info, "description", "description")
              /\ TakenFrom(c, c2, info, "page_url", "link")
    /\ (wk[w].pc = "page_commit" /\ wk[w].src = "ok" /\ wk'[w] # wk[w])
       => InsertsCandidate(w)

\* C9: in add_page of a new external id with a successful page-info request,
\* each of name, description and url comes from the source only if the caller
\* omitted it and the source supplies it; a value the caller gave is kept, and
\* a field omitted by both stays unset.
C9_EnrichOnlyOmitted == [][C9_Enriched]_vars

\* C9 witness: the page stored has the caller's name although the source
\* supplied one, and the source's url, which the caller omitted.
C9_Witness ==
  \E w \in Workers :
    /\ wk[w].out.op = "add_page" /\ wk[w].out.src = "ok" /\ wk[w].out.status = "ok"
    /\ wk[w].out.page \subseteq pages
    /\ The(wk[w].out.page).name = Some("Caller Name")
    /\ The(wk[w].out.page).page_url = Some("https://facebook.com/testpage")
    /\ The(wk[w].out.page).description = NULL

C10_NoOrphan == \A r \in events : \E p \in pages : p.id = r.fb_page_id

\* A delete_page whose session read every event of the page commits: the page
\* and its events are gone.
C10_Cascade ==
  \A w \in Workers :
    (/\ wk[w].pc = "del_commit" /\ wk'[w] # wk[w]
     /\ \A r \in events : r.fb_page_id = The(wk[w].page).id => r.id \in wk[w].snap)
    => /\ wk'[w].out.status = "ok"
       /\ \A p \in pages' : p.id # The(wk[w].page).id
       /\ \A r \in events' : r.fb_page_id # The(wk[w].page).id
       /\ (The(wk[w].page) \in pages => \A r \in events : r.id \in wk[w].snap => r \notin events')

\* C10: every stored Event refers to an existing Page: delete_page removes the
\* events of the page with the page, and no interleaving of delete_page with a
\* fetch_events that holds a snapshot of the page leaves an Event without Page.
C10_EventsHavePage == []C10_NoOrphan /\ [][C10_Cascade]_vars

\* C10 witness: a fetch is about to insert an event for the page of its
\* snapshot, and that page has been deleted.
C10_Witness ==
  \E w \in Workers :
    /\ wk[w].op = "fetch" /\ wk[w].pc = "commit" /\ wk[w].found = NULL
    /\ \A p \in pages : p.id # The(wk[w].page).id

\* The values of a list.
Range(list) == {list[i] : i \in 1..Len(list)}

\* While the background task runs, the ids it still has to push are the ids
\* handed to it less the ones it has issued an LPUSH for; when it has returned
\* True it issued one LPUSH per id and every id handed is on the list.
C11_Pushed ==
  \A w \in Workers :
    /\ wk[w].pc = "task"
       => /\ wk[w].out.tries <= Len(wk[w].out.handed)
          /\ wk[w].ids = SubSeq(wk[w].out.handed, wk[w].out.tries + 1,
                                Len(wk[w].out.handed))
    /\ wk[w].out.queued = "true"
       => /\ wk[w].out.tries = Len(wk[w].out.handed)
          /\ Range(wk[w].out.handed) \subseteq Range(events_to_analyze)

\* An LPUSH that returned put the id it was given at the head of the list.
C11_PushStep ==
  \A w \in Workers :
    (wk[w].pc = "task" /\ wk'[w].pc = "task" /\ wk'[w] # wk[w])
    => /\ events_to_analyze' # <<>>
       /\ Head(events_to_analyze') = Head(wk[w].ids)
       /\ Tail(events_to_analyze') = events_to_analyze

\* C11: when queue_events_for_analysis(event_ids) returns True, every id of
\* event_ids has been pushed onto events_to_analyze by that call.
C11_TrueMeansAllPushed == []C11_Pushed /\ [][C11_PushStep]_vars

\* C11 witness: the call returned True for a list of two different ids.
C11_Witness ==
  \E w \in Workers :
    /\ wk[w].out.queued = "true" /\ Len(wk[w].out.handed) = 2
    /\ wk[w].out.handed[1] # wk[w].out.handed[2]
    /\ Range(wk[w].out.handed) \subseteq Range(events_to_analyze)

\* The background task of an empty list ends in one step that returns True,
\* issues no command and changes neither the Redis keys nor the tables.
C12_EmptyStep ==
  \A w \in Workers :
    (wk[w].pc = "task" /\ wk[w].out.handed = <<>> /\ wk'[w] # wk[w])
    => /\ wk'[w].pc = "idle"
       /\ wk'[w].out.queued = "true"
       /\ wk'[w].out.tries = 0
       /\ events_to_analyze' = events_to_analyze
       /\ scheduled_pages' = scheduled_pages
       /\ page_fetch_config' = page_fetch_config
       /\ pages' = pages /\ events' = events

\* C12: queue_events_for_analysis([]) is a no-op that returns True: it pushes
\* nothing, changes no queue or store state, and does so whatever a command
\* sent to the transport at that moment would have met.
C12_EmptyIsNoOp == [][C12_EmptyStep]_vars

\* C12 witness: the task of a fetch that returned no events returned True
\* while the list held ids of earlier calls.
C12_Witness ==
  \E w \in Workers :
    /\ wk[w].out.op = "fetch" /\ wk[w].out.events = <<>>
    /\ wk[w].out.handed = <<>> /\ wk[w].out.queued = "true"
    /\ events_to_analyze # <<>>

\* A step of the background task leaves the tables alone; the step in which a
\* command fails ends the call with the value False: nothing is raised, the
\* failed LPUSH was the only attempt for that id, no further command follows,
\* and the rows of the ids handed over are stored as they were.
C13_FailureStep ==
  \A w \in Workers :
    (wk[w].pc = "task" /\ wk'[w] # wk[w])
    => /\ events' = events /\ pages' = pages
       /\ (wk[w].ids # <<>> /\ wk'[w].pc = "idle")
          => /\ wk'[w].out.queued = "false"
             /\ wk'[w].out.tries = wk[w].out.tries + 1
             /\ wk'[w].out.tries <= Len(wk[w].out.handed)
             /\ wk'[w].ids = <<>>
             /\ events_to_analyze' = events_to_analyze
             /\ \A id \in Range(wk[w].out.handed) : GetEvent(events', id) # {}
             /\ \A id \in Range(wk[w].out.handed) :
                  GetEvent(events', id) = GetEvent(events, id)

\* C13: a failure of the queue transport during queue_events_for_analysis is
\* caught and reported as False: no exception escapes, no id is attempted a
\* second time, and the event store is unchanged.
C13_QueueFailureIsFalse == [][C13_FailureStep]_vars

\* C13 witness: the second of two LPUSHes failed; the call returned False, the
\* first id is on the list and both rows are stored.
C13_Witness ==
  \E w \in Workers :
    /\ wk[w].out.queued = "false" /\ wk[w].out.tries = 2
    /\ Len(wk[w].out.handed) = 2
    /\ events_to_analyze # <<>> /\ Head(events_to_analyze) = wk[w].out.handed[1]
    /\ \A id \in Range(wk[w].out.handed) : GetEvent(events, id) # {}
    /\ Cardinality(events) = 2

\* The entries of the hash for one page.
ConfigOf(hash, pageId) == {e \in hash : e.field = pageId}

\* The commands of a repeated request change nothing: SADD of a member and
\* HSET of a page that has its config record, SREM of a non-member and HDEL of
\* a page without record.
C14_RepeatStep ==
  \A w \in Workers :
    LET id == The(wk[w].page).id
    IN  /\ (wk[w].pc = "sadd" /\ id \in scheduled_pages /\ wk'[w].pc = "hset")
           => scheduled_pages' = scheduled_pages
        /\ (wk[w].pc = "hset" /\ ConfigOf(page_fetch_config, id) # {}
               /\ wk'[w].out.status = "ok")
           => page_fetch_config' = page_fetch_config
        /\ (wk[w].pc = "srem" /\ id \notin scheduled_pages /\ wk'[w].pc = "hdel")
           => scheduled_pages' = scheduled_pages
        /\ (wk[w].pc = "hdel" /\ ConfigOf(page_fetch_config, id) = {}
               /\ wk'[w].out.status = "ok")
           => page_fetch_config' = page_fetch_config

\* C14: schedule_page_fetch of a page that is scheduled and
\* unschedule_page_fetch of a page that is not are no-ops that return success:
\* the scheduled_pages set and the page's page_fetch_config record, with the
\* last_fetch the scheduler wrote into it, stay as they are.
C14_ScheduleIdempotent == [][C14_RepeatStep]_vars

\* What the client of the request is answered.
Response(out) == <<out.status, out.exc, out.events>>

\* The list changes only in a step of a background task, and a background
\* task exists only for a fetch whose list of events is fixed: the ids it
\* works on are the ids of that list.  No step of the task, whether its
\* command succeeds or fails, changes the response.
C15_HandoffStep ==
  /\ events_to_analyze' # events_to_analyze
     => \E w \in Workers : wk[w].pc = "task" /\ wk'[w] # wk[w]
  /\ \A w \in Workers :
       /\ wk'[w].pc = "task"
          => /\ wk'[w].out.op = "fetch" /\ wk'[w].out.status = "ok"
             /\ wk'[w].out.handed = HandedIds(wk'[w].out.events)
       /\ wk[w].pc = "task"
          => Response(wk'[w].out) = Response(wk[w].out)

\* C15: in the POST /pages/{id}/fetch flow the queue handoff starts only after
\* the list of events to return is final, and the response is that list
\* whether the handoff succeeds, fails or is delayed.
C15_ResponseBeforeHandoff == [][C15_HandoffStep]_vars

\* C15 witness: the handoff of a fetch failed and the response of the fetch
\* is its list of two events.
C15_Witness ==
  \E w \in Workers :
    /\ wk[w].pc = "idle" /\ wk[w].out.op = "fetch"
    /\ wk[w].out.queued = "false"
    /\ wk[w].out.status = "ok" /\ Len(wk[w].out.events) = 2

\* When the handoff of a fetch has returned True, each event the fetch
\* returned is the one stored row of its external id, and the internal id of
\* that row is on the list.
C16_Requeued ==
  \A w \in Workers :
    (wk[w].out.op = "fetch" /\ wk[w].out.queued = "true")
    => \A i \in 1..Len(wk[w].out.events) :
         LET e == wk[w].out.events[i]
         IN  /\ {r.id : r \in RowsOf(events, e.fb_event_id)} = {e.id}
             /\ e.id \in Range(events_to_analyze)

\* An external id that stays stored keeps its internal id.
C16_SameId ==
  \A r \in events : \A r2 \in events' :
    (r.fb_event_id # NULL /\ r2.fb_event_id = r.fb_event_id) => r2.id = r.id

Min(a, b) == IF a < b THEN a ELSE b

\* C17: for every requested limit and every configured ceiling, the count in
\* the request fetch_events sends to the source is min(limit, ceiling), and so
\* is never above the ceiling.
C17_LimitClamped ==
  \A w \in Workers :
    /\ wk[w].sent # NULL
       => /\ The(wk[w].sent) = Min(The(wk[w].limit), max_events_per_page)
          /\ The(wk[w].sent) <= max_events_per_page
    /\ wk[w].out.sent # NULL
       => /\ The(wk[w].out.sent) = Min(The(wk[w].out.limit), max_events_per_page)
          /\ The(wk[w].out.sent) <= max_events_per_page

\* C17 witness: with the ceiling at 25 a request for 26 events sent 25.
C17_Witness ==
  \E w \in Workers :
    /\ max_events_per_page = 25
    /\ wk[w].out.limit = Some(26) /\ wk[w].out.sent = Some(25)
    /\ wk[w].out.reqs = 1

\* C18: a call of fetch_events sends exactly one request to the source,
\* whatever comes back: none before the request, one from then on, whether the
\* answer is a failure, a payload it raises on, a list, or a list with a link
\* to a next page.
C18_OneRequest ==
  \A w \in Workers :
    /\ (wk[w].op = "fetch" /\ wk[w].pc = "source") => wk[w].reqs = 0
    /\ (wk[w].op = "fetch" /\ wk[w].pc \in {"lookup", "commit", "refresh"})
       => wk[w].reqs = 1
    /\ (wk[w].out.op = "fetch" /\ wk[w].out.on # NULL) => wk[w].out.reqs = 1

\* C18 witness: a fetch whose answer carried a link to a next page returned
\* the events of the first page after one request.
C18_Witness ==
  \E w \in Workers :
    /\ wk[w].out.op = "fetch" /\ wk[w].out.paged /\ wk[w].out.status = "ok"
    /\ wk[w].out.events # <<>> /\ wk[w].out.reqs = 1

\* A record the derivation and the response model accept: its place, if it
\* has one, is an object, and its id, name and counts are not null.
WellFormed(ev) ==
  /\ ~PlaceRaises(ev)
  /\ Derive(ev).fb_event_id # NULL /\ Derive(ev).name # NULL
  /\ Derive(ev).attending_count # NULL /\ Derive(ev).interested_count # NULL

\* The list being built holds one event per record processed, in the order
\* of the records, each with the external id of its record.
C19_InOrder ==
  \A w \in Workers :
    /\ wk[w].pc = "lookup"
       => /\ Len(wk[w].result) = Len(wk[w].seen)
          /\ Len(wk[w].seen) + wk[w].left = wk[w].n
    /\ wk[w].pc \in {"commit", "refresh"}
       => /\ Len(wk[w].result) + 1 = Len(wk[w].seen)
          /\ Len(wk[w].seen) + wk[w].left = wk[w].n + 1
    /\ \A i \in 1..Len(wk[w].result) : wk[w].result[i].fb_event_id = wk[w].seen[i]
    /\ (wk[w].out.op = "fetch" /\ wk[w].out.status = "ok")
       => Len(wk[w].out.events) = wk[w].out.n

\* The list returned is the list built, with the event of the last record at
\* its end; a well-formed record does not make the call raise; an answer with
\* an empty data array ends the call with the empty list; and the request to
\* the source writes nothing to the store.
C19_ReturnStep ==
  \A w \in Workers :
    /\ (wk[w].pc = "refresh" /\ wk'[w].pc = "task")
       => /\ Len(wk'[w].out.events) = Len(wk[w].seen)
          /\ \A i \in 1..Len(wk[w].seen) :
               wk'[w].out.events[i].fb_event_id = wk[w].seen[i]
          /\ \A i \in 1..Len(wk[w].result) :
               wk'[w].out.events[i] = wk[w].result[i]
    /\ (wk[w].pc \in {"lookup", "commit", "refresh"} /\ wk'[w] # wk[w]
          /\ WellFormed(The(IF wk[w].pc = "lookup" THEN wk'[w].ev ELSE wk[w].ev)))
       => wk'[w].out.status # "raised"
    /\ (wk[w].pc = "source" /\ wk'[w] # wk[w])
       => /\ events' = events /\ nextEventId' = nextEventId
          /\ (wk'[w].out.src = "data" /\ wk'[w].out.n = 0)
             => (wk'[w].out.status = "ok" /\ wk'[w].out.events = <<>>)

Part(o, k) ==
  IF k \in DOMAIN o /\ TruthyStr(o[k]) THEN <<The(o[k])>> ELSE <<>>

\* The parts of the location the claim describes: the place name, then the
\* city and the country of the place's location.
ExpectedParts(ev) ==
  IF "place" \notin DOMAIN ev \/ ev.place = NULL THEN <<>>
  ELSE LET place == The(ev.place)
           loc == IF "location" \in DOMAIN place /\ place.location # NULL
                  THEN The(place.location) ELSE [none |-> NULL]
       IN  Part(place, "name") \o Part(loc, "city") \o Part(loc, "country")

\* The comma-separated parts of a stored location; what fetch_events stores
\* is a single name.
StoredParts(location) == IF location = NULL THEN <<>> ELSE <<The(location)>>

\* C20: the stored location of an ingested event is the place name followed
\* by the city and country of the place when present, comma-separated; a
\* record without place has a null location.
C20_LocationJoined ==
  \A w \in Workers :
    wk[w].pc = "refresh"
    => \A r \in GetEvent(events, The(wk[w].rowid)) :
         StoredParts(r.location) = ExpectedParts(The(wk[w].ev))


\* C21: a page id or event id with no stored row is answered "not found", an
\* outcome of its own, and the request then made no call to the external
\* source, no write to the store and no write to the queue or the schedule;
\* a schedule or unschedule request whose queue call returned False is
\* answered with the server error.
PageOps == {"fetch", "delete_page", "schedule", "unschedule", "read_page"}

\* The step is the start of a request of worker w that names a page id, or
\* an event id, for which no row is stored.
C21_MissingPage(w) ==
  \E p \in PageIds :
    /\ QueryPageById(pages, p) = {}
    /\ \/ FetchStart(w, p) \/ DeletePageStart(w, p) \/ ReadPage(w, p)
       \/ \E op \in Operations : ScheduleStart(w, p, op)

C21_MissingEvent(w) ==
  \E e \in EventIds : GetEvent(events, e) = {} /\ ReadEvent(w, e)

C21_Step ==
  \A w \in Workers :
    /\ (C21_MissingPage(w) \/ C21_MissingEvent(w))
        => /\ wk'[w].out.op \in PageOps \cup {"read_event"}
           /\ wk'[w].out.status = "notfound"
           /\ wk'[w].pc = "idle"
           /\ wk'[w].out.reqs = 0
           /\ wk'[w].out.src = "none"
           /\ UNCHANGED <<pages, events, nextPageId, nextEventId, redisVars>>
    /\ (wk'[w].out.status = "notfound")
        => /\ wk'[w].out.exc = ""
           /\ wk'[w].out.queued = "none"
           /\ wk'[w].out.handed = <<>>
    /\ (wk'[w].out.op \in Operations /\ wk'[w].out.queued = "false")
        => wk'[w].out.status = "failed"
    /\ (wk'[w].out.op \in Operations /\ wk'[w].out.status = "failed")
        => wk'[w].out.queued = "false"

C21_NotFoundAndServerError == [][C21_Step]_vars

\* A fetch of a page id that is not stored, answered 404 beside a stored
\* page with its events and its registration.
C21_Witness ==
  /\ wk[1].out.op = "fetch"
  /\ wk[1].out.status = "notfound"
  /\ events # {}
  /\ scheduled_pages # {}

\* A schedule request answered 500 after its SADD went through.
C21_ServerError ==
  /\ wk[1].out.op = "schedule"
  /\ wk[1].out.status = "failed"
  /\ scheduled_pages # {}


\* The timestamp strings of the record being ingested, each with the value
\* stored for it.
TimeKeys == {"start_time", "end_time"}

Parsed(w) ==
  {<<The(The(wk[w].ev)[k]), r[k]>> :
     k \in TimeKeys \cap DOMAIN The(wk[w].ev), r \in GetEvent(events, The(wk[w].rowid))}

\* The last five characters are a sign and four digits.
SignedOffset4(s) ==
  /\ Len(s) >= 5
  /\ Last(s, 5)[1] \in {"+", "-"}
  /\ \A i \in 2..5 : Last(s, 5)[i] \in Digits

InsertColon(s) == DropLast(s, 2) \o <<":">> \o Last(s, 2)

EndsInZ(s) == s # <<>> /\ s[Len(s)] = "Z"

\* C22: a timestamp string that ends in a signed offset of four digits without
\* a colon, of either sign, is stored as the instant read from the string with
\* a colon put before its last two digits; a string of any other shape (not
\* ending in Z) is parsed as it is, with no colon put into it.
C22_OffsetNormalized ==
  \A w \in Workers :
    wk[w].pc = "refresh"
    => \A p \in Parsed(w) :
         IF SignedOffset4(p[1]) THEN p[2] = FromIsoFormat(InsertColon(p[1]))
         ELSE EndsInZ(p[1]) \/ (FormatTimeStr(p[1]) = p[1] /\ p[2] = FromIsoFormat(p[1]))

\* C23: a timestamp string that ends in Z is stored as what parsing it with
\* that last Z replaced by +00:00 gives: the same instant, or null when that
\* parse fails.
C23_TrailingZ ==
  \A w \in Workers :
    wk[w].pc = "refresh"
    => \A p \in Parsed(w) :
         EndsInZ(p[1])
         => p[2] = FromIsoFormat(DropLast(p[1], 1) \o <<"+","0","0",":","0","0">>)


\* A key that is absent from the record, or present with a null value.
NoValue(ev, k) == k \notin DOMAIN ev \/ ev[k] = NULL

\* C24: a field the raw record gives no value for (key absent, or present
\* and null) is stored with its default, on insert and on update: the counts
\* as 0, is_online as false, the name as "Unnamed Event", and description,
\* start time, end time and location as null.
C24_DefaultsStored ==
  \A w \in Workers :
    wk[w].pc = "refresh"
    => \A r \in GetEvent(events, The(wk[w].rowid)) :
         LET ev == The(wk[w].ev)
         IN  /\ NoValue(ev, "attending_count") => r.attending_count = Some(0)
             /\ NoValue(ev, "interested_count") => r.interested_count = Some(0)
             /\ NoValue(ev, "is_online") => r.is_online = Some(FALSE)
             /\ NoValue(ev, "name") => r.name = Some(UnnamedEvent)
             /\ NoValue(ev, "description") => r.description = NULL
             /\ NoValue(ev, "start_time") => r.start_time = NULL
             /\ NoValue(ev, "end_time") => r.end_time = NULL
             /\ NoValue(ev, "place") => r.location = NULL

\* C24 restricted to the cases the code handles: a key that is absent, and a
\* null count or flag on insert.
C24_AbsentKeys ==
  \A w \in Workers :
    wk[w].pc = "refresh"
    => \A r \in GetEvent(events, The(wk[w].rowid)) :
         LET ev == The(wk[w].ev)
         IN  /\ "attending_count" \notin DOMAIN ev => r.attending_count = Some(0)
             /\ "interested_count" \notin DOMAIN ev => r.interested_count = Some(0)
             /\ "is_online" \notin DOMAIN ev => r.is_online = Some(FALSE)
             /\ "name" \notin DOMAIN ev => r.name = Some(UnnamedEvent)
             /\ NoValue(ev, "description") => r.description = NULL
             /\ NoValue(ev, "start_time") => r.start_time = NULL
             /\ NoValue(ev, "end_time") => r.end_time = NULL
             /\ NoValue(ev, "place") => r.location = NULL
             /\ (wk[w].found = NULL /\ NoValue(ev, "attending_count"))
                 => r.attending_count = Some(0)
             /\ (wk[w].found = NULL /\ NoValue(ev, "is_online"))
                 => r.is_online = Some(FALSE)

\* A null count written over a stored row.
C24_NullCountOnUpdate ==
  \E w \in Workers :
    /\ wk[w].pc = "refresh" /\ wk[w].found # NULL
    /\ "attending_count" \in DOMAIN The(wk[w].ev)
    /\ \E r \in GetEvent(events, The(wk[w].rowid)) : r.attending_count = NULL


\* C25: whatever the interleaving of add_page calls, the store holds at most
\* one Page per external id, and no add_page call ends in the store's
\* refusal of a duplicate: two concurrent calls for the same new external id
\* both return the one Page.
C25_ConcurrentAddPage ==
  /\ \A p, q \in pages : p.fb_page_id = q.fb_page_id => p = q
  /\ \A w \in Workers :
       wk[w].out.op = "add_page"
       => wk[w].out.exc # "IntegrityError: duplicate entry"

\* The half of C25 that the unique constraint gives.
C25_OnePagePerExternalId ==
  \A p, q \in pages : p.fb_page_id = q.fb_page_id => p = q


\* C26: every Event that fetch_events(page) returns belongs to that page: its
\* fb_page_id is the internal id of the page fetched, also when its external
\* id was already stored as an Event of another page.
C26_ReturnedEventsOfPage ==
  \A w \in Workers :
    (wk[w].out.op = "fetch" /\ wk[w].out.status = "ok")
    => \A i \in 1..Len(wk[w].out.events) :
         wk[w].out.events[i].fb_page_id = The(wk[w].out.on).id


\* C27: queue_events_for_analysis is all-or-nothing: when the call returns
\* False, none of its ids has been pushed onto events_to_analyze, that is,
\* every id handed to the call is still to be pushed at the command that
\* failed.
C27_FalseStep ==
  \A w \in Workers :
    (wk[w].pc = "task" /\ wk'[w].out.queued = "false")
    => /\ wk[w].ids = wk[w].out.handed
       /\ events_to_analyze' = events_to_analyze

C27_AllOrNothing == [][C27_FalseStep]_vars


\* C28: whenever no schedule or unschedule call is between its two commands,
\* also after a call that failed part-way and returned False, a page id is in
\* scheduled_pages if and only if page_fetch_config holds a record for it.
C28_SetMatchesHash ==
  (\A w \in Workers : wk[w].pc \notin {"hset", "hdel"})
  => \A p \in PageIds :
       p \in scheduled_pages <=> ConfigOf(page_fetch_config, p) # {}

\* C29: every page id in scheduled_pages, and every key of
\* page_fetch_config, is the internal id of a stored Page: a deleted page is
\* no longer scheduled.
C29_ScheduledPagesExist ==
  /\ \A p \in scheduled_pages : QueryPageById(pages, p) # {}
  /\ \A e \in page_fetch_config : QueryPageById(pages, e.field) # {}


\* The ids of the rows the fetch of worker me has committed so far: those of
\* its result list, and the row of the record it is at once that is committed.
Committed(me) ==
  {me.result[i].id : i \in 1..Len(me.result)}
  \cup (IF me.pc = "refresh" THEN me.rowid ELSE {})

\* C30: when a fetch request leaves the loop over the records, by returning
\* or by an exception, the id of every Event row it committed is in the list
\* it hands to queue_events_for_analysis.
C30_EndStep ==
  \A w \in Workers :
    (wk[w].op = "fetch" /\ wk[w].pc \in {"lookup", "commit", "refresh"}
       /\ wk'[w].pc \in {"idle", "task"})
    => Committed(wk[w]) \subseteq Range(wk'[w].out.handed)

C30_CommittedIdsHanded == [][C30_EndStep]_vars

\* The same for requests that return: every committed id is handed over.
C30_ReturnStep ==
  \A w \in Workers :
    (wk[w].op = "fetch" /\ wk[w].pc = "refresh" /\ wk'[w].pc = "task")
    => Committed(wk[w]) \subseteq Range(wk'[w].out.handed)

C30_HandedWhenReturned == [][C30_ReturnStep]_vars

=============================================================================
